---- MODULE Spec2Model ----
(***************************************************************************)
(* Model of the pull-request review action in src/src/main.ts: the run of  *)
(* main() (event dispatch, diff acquisition, exclusion filter, rule        *)
(* loading, per-chunk review with one language retry, comment mapping and  *)
(* review submission) together with the pure helpers it uses.              *)
(*                                                                         *)
(* Text is a sequence of characters, a character is a one-character string *)
(* (or "U+XXXX" for a character outside ASCII) and CodeOf gives its code   *)
(* point.  A JavaScript number is kept as sign, decimal mantissa and       *)
(* decimal exponent, so that 1.5 and 42 and NaN stay different values.     *)
(***************************************************************************)
EXTENDS Integers, Sequences, FiniteSets

(***************************************************************************)
(* Characters and text                                                     *)
(***************************************************************************)
Digits == {"0", "1", "2", "3", "4", "5", "6", "7", "8", "9"}

Alphabet ==
    Digits \cup {" ", "\t", "\n", "+", "-", ".", "*", "?", "/", ",", "a", "b", "c",
                 "d", "e", "f", "i", "l", "m", "n", "r", "s", "t", "u", "v",
                 "x", "y", "E", "I", "U+D55C", "U+AE00", "U+4E2D"}

\* code point of each character of the alphabet
CodeOf(c) ==
    CASE c = "0" -> 48 [] c = "1" -> 49 [] c = "2" -> 50 [] c = "3" -> 51
      [] c = "4" -> 52 [] c = "5" -> 53 [] c = "6" -> 54 [] c = "7" -> 55
      [] c = "8" -> 56 [] c = "9" -> 57
      [] c = " " -> 32 [] c = "\t" -> 9 [] c = "\n" -> 10
      [] c = "+" -> 43 [] c = "-" -> 45 [] c = "." -> 46 [] c = "*" -> 42
      [] c = "?" -> 63 [] c = "/" -> 47 [] c = "," -> 44
      [] c = "a" -> 97 [] c = "b" -> 98 [] c = "c" -> 99 [] c = "d" -> 100
      [] c = "e" -> 101 [] c = "f" -> 102 [] c = "i" -> 105 [] c = "l" -> 108
      [] c = "m" -> 109 [] c = "n" -> 110 [] c = "r" -> 114
      [] c = "s" -> 115 [] c = "t" -> 116
      [] c = "u" -> 117 [] c = "v" -> 118 [] c = "x" -> 120 [] c = "y" -> 121
      [] c = "E" -> 69 [] c = "I" -> 73
      [] c = "U+D55C" -> 54620      \* Hangul syllable HAN
      [] c = "U+AE00" -> 44544      \* Hangul syllable GEUL
      [] c = "U+4E2D" -> 20013      \* CJK ideograph, not Hangul

\* String.prototype.trim strips white space and line terminators
IsSpace(c) == CodeOf(c) \in {9, 10, 11, 12, 13, 32, 160, 65279}

\* F(a), with a evaluated once however often F uses it
With(a, F(_)) == CHOOSE r \in {F(x) : x \in {a}} : TRUE

RECURSIVE TrimLeft(_)
TrimLeft(s) ==
    IF s # <<>> /\ IsSpace(Head(s)) THEN TrimLeft(Tail(s)) ELSE s

RECURSIVE TrimRight(_)
TrimRight(s) ==
    IF s # <<>> /\ IsSpace(s[Len(s)])
        THEN TrimRight(SubSeq(s, 1, Len(s) - 1))
        ELSE s

Trim(s) == With(s, LAMBDA x : With(TrimLeft(x), TrimRight))

\* index of the first occurrence of one of the characters cs in s, 0 if none
RECURSIVE IndexOfAny(_, _, _)
IndexOfAny(s, cs, from) ==
    IF from > Len(s) THEN 0
    ELSE IF s[from] \in cs THEN from
    ELSE IndexOfAny(s, cs, from + 1)

AllDigits(s) == \A i \in 1..Len(s) : s[i] \in Digits

(***************************************************************************)
(* JavaScript numbers and the Number() conversion                          *)
(*                                                                         *)
(* A number is NaN, an infinity, or finite: (-1)^neg * m * 10^e with m     *)
(* free of trailing zeros (m = 0 has e = 0).  Literals carry at most nine  *)
(* significant digits, for which the decimal value decides exactly whether *)
(* the double is zero, positive, integral or infinite.                     *)
(***************************************************************************)
NaN == [k |-> "nan", neg |-> FALSE, m |-> 0, e |-> 0]

Infinity(neg) == [k |-> "inf", neg |-> neg, m |-> 0, e |-> 0]

Zero(neg) == [k |-> "fin", neg |-> neg, m |-> 0, e |-> 0]

RECURSIVE Pow10(_)
Pow10(n) == IF n <= 0 THEN 1 ELSE 10 * Pow10(n - 1)

RECURSIVE NumDigits(_)
NumDigits(m) == IF m < 10 THEN 1 ELSE 1 + NumDigits(m \div 10)

\* the digit of a character in the given base, -1 when it is none
DigitOfCode(code) ==
    IF code \in 48..57 THEN code - 48
    ELSE IF code \in 97..102 THEN code - 87
    ELSE IF code \in 65..70 THEN code - 55
    ELSE -1

DigitValue(c, base) ==
    With(DigitOfCode(CodeOf(c)), LAMBDA v : IF v < base THEN v ELSE -1)

RECURSIVE ParseDigits(_, _, _)
ParseDigits(s, base, acc) ==
    IF s = <<>> THEN acc
    ELSE ParseDigits(Tail(s), base, acc * base + DigitValue(Head(s), base))

AllDigitsIn(s, base) == \A i \in 1..Len(s) : DigitValue(s[i], base) >= 0

RECURSIVE StripZeros(_, _)
StripZeros(m, e) ==
    IF m # 0 /\ m % 10 = 0 THEN StripZeros(m \div 10, e + 1) ELSE <<m, e>>

\* the double nearest to (-1)^neg * m * 10^e: overflow gives an infinity,
\* underflow gives a zero
\* m has d digits and no trailing zero; order is d + e, so that the value
\* lies in [10^(order-1), 10^order), and lead holds its first nine digits
RoundNumber(neg, m, e, order, lead) ==
    IF order > 309 \/ (order = 309 /\ lead > 179769313)
        THEN Infinity(neg)
    ELSE IF order < -323 \/ (order = -323 /\ lead < 247032823)
        THEN Zero(neg)
    ELSE [k |-> "fin", neg |-> neg, m |-> m, e |-> e]

MakeNumber(neg, m, e) ==
    IF m = 0 THEN Zero(neg)
    ELSE With(StripZeros(m, e), LAMBDA n :
         With(NumDigits(n[1]), LAMBDA d :
            RoundNumber(neg, n[1], n[2], d + n[2], n[1] * Pow10(9 - d))))

\* the part of s before position i, all of s when i = 0
Before(s, i) == IF i = 0 THEN s ELSE SubSeq(s, 1, i - 1)

\* the part of s after position i, nothing when i = 0
After(s, i) == IF i = 0 THEN <<>> ELSE SubSeq(s, i + 1, Len(s))

\* ExponentPart after its "e": an optional sign and digits; hasExp says
\* whether there was an "e".  <<well-formed, value>>
ExponentPart(hasExp, expS) ==
    IF ~hasExp THEN <<TRUE, 0>>
    ELSE IF expS # <<>> /\ Head(expS) = "-"
        THEN <<Len(expS) > 1 /\ AllDigits(Tail(expS)),
               0 - ParseDigits(Tail(expS), 10, 0)>>
    ELSE IF expS # <<>> /\ Head(expS) = "+"
        THEN <<Len(expS) > 1 /\ AllDigits(Tail(expS)),
               ParseDigits(Tail(expS), 10, 0)>>
    ELSE <<expS # <<>> /\ AllDigits(expS), ParseDigits(expS, 10, 0)>>

\* integer digits, fraction digits and exponent of a decimal literal
DecimalOfParts(neg, intP, fracP, exp) ==
    IF AllDigits(intP) /\ AllDigits(fracP) /\ (intP # <<>> \/ fracP # <<>>)
       /\ exp[1]
        THEN MakeNumber(neg, ParseDigits(intP \o fracP, 10, 0),
                        exp[2] - Len(fracP))
        ELSE NaN

\* mantissa text and exponent of a decimal literal
DecimalOfMantissa(neg, mant, exp) ==
    With(IndexOfAny(mant, {"."}, 1), LAMBDA dot :
        DecimalOfParts(neg, Before(mant, dot), After(mant, dot), exp))

\* StrDecimalLiteral without its sign: digits, optional fraction and exponent
UnsignedDecimal(neg, u) ==
    With(IndexOfAny(u, {"e", "E"}, 1), LAMBDA ePos :
        DecimalOfMantissa(neg, Before(u, ePos),
                          ExponentPart(ePos # 0, After(u, ePos))))

\* Number(string): the StringNumericLiteral grammar
\* the base a "0x", "0o" or "0b" prefix announces, 10 without one
BaseOfPrefix(t) ==
    IF Len(t) >= 2 /\ t[1] = "0"
        THEN (CASE t[2] \in {"x", "X"} -> 16
                [] t[2] \in {"o", "O"} -> 8
                [] t[2] \in {"b", "B"} -> 2
                [] OTHER -> 10)
        ELSE 10

\* NonDecimalIntegerLiteral: the digits after the prefix
NonDecimal(ds, base) ==
    IF ds # <<>> /\ AllDigitsIn(ds, base)
        THEN MakeNumber(FALSE, ParseDigits(ds, base, 0), 0)
        ELSE NaN

\* StrDecimalLiteral: an optional sign, then Infinity or an unsigned decimal
SignedDecimal(neg, u) ==
    IF u = <<"I", "n", "f", "i", "n", "i", "t", "y">> THEN Infinity(neg)
    ELSE UnsignedDecimal(neg, u)

\* StrNumericLiteral, t being the trimmed text
NumericLiteral(t, base) ==
    IF t = <<>> THEN Zero(FALSE)
    ELSE IF base # 10 THEN NonDecimal(SubSeq(t, 3, Len(t)), base)
    ELSE IF Head(t) \in {"+", "-"} THEN SignedDecimal(Head(t) = "-", Tail(t))
    ELSE SignedDecimal(FALSE, t)

\* Number(string): the StringNumericLiteral grammar
StringToNumber(s) ==
    With(Trim(s), LAMBDA t : NumericLiteral(t, BaseOfPrefix(t)))

NumberIsFinite(n) == n.k = "fin"

NumberIsInteger(n) == n.k = "fin" /\ n.e >= 0

\* n <= 0 as JavaScript compares: false for NaN
NumberLeqZero(n) ==
    \/ n.k = "inf" /\ n.neg
    \/ n.k = "fin" /\ (n.m = 0 \/ n.neg)

\* the natural number n as a JavaScript number
NumberOfNat(n) == MakeNumber(FALSE, n, 0)

(***************************************************************************)
(* JSON values carried by a model response                                 *)
(***************************************************************************)
JUndefined == [t |-> "undefined", v |-> <<>>]      \* field absent

JNull == [t |-> "null", v |-> <<>>]

JString(s) == [t |-> "string", v |-> s]

\* a JSON number, kept as its literal text
JNumber(lit) == [t |-> "number", v |-> lit]

JBool(b) == [t |-> "boolean", v |-> IF b THEN <<"t">> ELSE <<>>]

\* Number(value) for a JSON value
ToNumber(x) ==
    CASE x.t = "undefined" -> NaN
      [] x.t = "null" -> Zero(FALSE)
      [] x.t = "boolean" -> IF x.v # <<>> THEN NumberOfNat(1) ELSE Zero(FALSE)
      [] x.t = "number" -> StringToNumber(x.v)
      [] x.t = "string" -> StringToNumber(x.v)

\* the truthiness of a JSON value
Truthy(x) ==
    CASE x.t = "undefined" -> FALSE
      [] x.t = "null" -> FALSE
      [] x.t = "boolean" -> x.v # <<>>
      [] x.t = "number" -> With(StringToNumber(x.v), LAMBDA n :
                               n.k # "nan" /\ ~(n.k = "fin" /\ n.m = 0))
      [] x.t = "string" -> x.v # <<>>

\* String(value) for a JSON value
StringOf(x) ==
    CASE x.t = "undefined" -> <<"u", "n", "d", "e", "f", "i", "n", "e", "d">>
      [] x.t = "null" -> <<"n", "u", "l", "l">>
      [] x.t = "boolean" -> IF x.v # <<>> THEN <<"t", "r", "u", "e">>
                                          ELSE <<"f", "a", "l", "s", "e">>
      [] x.t = "number" -> x.v
      [] x.t = "string" -> x.v


(***************************************************************************)
(* Review items, the language check and the parse of a model response      *)
(***************************************************************************)
\* an element of the reviews array: an object with two optional fields ...
Item(lineNumber, reviewComment) ==
    [t |-> "object", lineNumber |-> lineNumber, reviewComment |-> reviewComment]

\* ... or null, which JSON allows as an array element
ItemNull == [t |-> "null", lineNumber |-> JUndefined, reviewComment |-> JUndefined]

\* /[U+AC00-U+D7A3]/.test(text)
hasHangul(text) ==
    \E i \in 1..Len(text) : CodeOf(text[i]) \in 44032..55203

\* the callback of every(): reading a property of null throws a TypeError
KoreanOrEmpty(r) ==
    With(Trim(StringOf(IF Truthy(r.reviewComment)
                          THEN r.reviewComment
                          ELSE JString(<<>>))),
         LAMBDA c : IF c = <<>> THEN TRUE ELSE hasHangul(c))

\* reviews.every(...), left to right, stopping at the first false:
\* "pass", "fail", or "throw" when the callback reaches a null element
RECURSIVE allKoreanOrEmpty(_)
allKoreanOrEmpty(reviews) ==
    IF reviews = <<>> THEN "pass"
    ELSE IF Head(reviews).t = "null" THEN "throw"
    ELSE IF ~KoreanOrEmpty(Head(reviews)) THEN "fail"
    ELSE allKoreanOrEmpty(Tail(reviews))

\* The text of a response, by what JSON.parse makes of it: parse is "error"
\* (not JSON), "null", "primitive", "array" or "object"; for an object,
\* reviewsType is the type of its reviews field and items the elements
\* when that is an array.
Body(parse, reviewsType, items) ==
    [parse |-> parse, reviewsType |-> reviewsType, items |-> items]

\* "{}", the text used when the response has no content
EmptyObjectBody == Body("object", "undefined", <<>>)

safeParseReviews(raw) ==
    IF raw.parse = "error" THEN <<>>
    ELSE IF raw.parse = "object" /\ raw.reviewsType = "array" THEN raw.items
    ELSE <<>>

\* What the completion API gives for one request: the promise is rejected,
\* or it resolves to a response with or without a first choice, whose
\* message has content or not.
Rejected == [status |-> "rejected", hasChoice |-> FALSE, hasContent |-> FALSE,
             body |-> EmptyObjectBody]

Resolved(hasChoice, hasContent, body) ==
    [status |-> "resolved", hasChoice |-> hasChoice, hasContent |-> hasContent,
     body |-> body]

\* faulty variant: a text that is not JSON makes the call throw
callOpenAIOnceRaising(response) ==
    IF response.status = "rejected" \/ ~response.hasChoice
       \/ (response.hasContent /\ response.body.parse = "error")
        THEN [threw |-> TRUE, reviews |-> <<>>]
        ELSE [threw |-> FALSE,
              reviews |-> safeParseReviews(IF response.hasContent
                                               THEN response.body
                                               ELSE EmptyObjectBody)]

\* callOpenAIOnce: throws when the request fails or choices[0] is missing
callOpenAIOnce(response) ==
    IF response.status = "rejected" \/ ~response.hasChoice
        THEN [threw |-> TRUE, reviews |-> <<>>]
        ELSE [threw |-> FALSE,
              reviews |-> safeParseReviews(IF response.hasContent
                                               THEN response.body
                                               ELSE EmptyObjectBody)]

(***************************************************************************)
(* Diff files and comment records                                          *)
(***************************************************************************)
DiffFile(to, chunks) == [to |-> to, chunks |-> chunks]

DevNull == <<"/", "d", "e", "v", "/", "n", "u", "l", "l">>

CommentRecord(body, path, line) == [body |-> body, path |-> path, line |-> line]

\* the callback of flatMap: the records one review item yields
CommentOfItem(file, aiResponse) ==
    With(ToNumber(aiResponse.lineNumber), LAMBDA line :
        IF ~NumberIsFinite(line) \/ NumberLeqZero(line)
            THEN <<>>
            ELSE <<CommentRecord(aiResponse.reviewComment, file.to.v, line)>>)

RECURSIVE FlatMapItems(_, _)
FlatMapItems(file, aiResponses) ==
    IF aiResponses = <<>> THEN <<>>
    ELSE CommentOfItem(file, Head(aiResponses))
            \o FlatMapItems(file, Tail(aiResponses))

\* createComment: threw is TRUE when an element is null (TypeError on
\* aiResponse.lineNumber), and then no list is returned
createComment(file, aiResponses) ==
    IF ~Truthy(file.to) THEN [threw |-> FALSE, out |-> <<>>]
    ELSE IF \E i \in 1..Len(aiResponses) : aiResponses[i].t = "null"
        THEN [threw |-> TRUE, out |-> <<>>]
    ELSE [threw |-> FALSE, out |-> FlatMapItems(file, aiResponses)]

(***************************************************************************)
(* Exclusion patterns                                                      *)
(***************************************************************************)
\* s.split(sep)
RECURSIVE Split(_, _)
Split(s, sep) ==
    With(IndexOfAny(s, {sep}, 1), LAMBDA i :
        IF i = 0 THEN <<s>>
        ELSE <<SubSeq(s, 1, i - 1)>> \o Split(SubSeq(s, i + 1, Len(s)), sep))

RECURSIVE DropEmpty(_)
DropEmpty(parts) ==
    IF parts = <<>> THEN <<>>
    ELSE IF Head(parts) = <<>> THEN DropEmpty(Tail(parts))
    ELSE <<Head(parts)>> \o DropEmpty(Tail(parts))

\* excludeRaw.split(",").map(trim).filter(Boolean)
TrimEach(parts) == [i \in 1..Len(parts) |-> Trim(parts[i])]

ExcludePatterns(raw) == DropEmpty(TrimEach(Split(raw, ",")))

\* one path segment against one pattern segment: "*" is any run of
\* characters, "?" is one character, anything else is itself
RECURSIVE GlobSegment(_, _)
GlobSegment(seg, pat) ==
    IF pat = <<>> THEN seg = <<>>
    ELSE IF Head(pat) = "*"
        THEN GlobSegment(seg, Tail(pat))
             \/ (seg # <<>> /\ GlobSegment(Tail(seg), pat))
    ELSE IF Head(pat) = "?"
        THEN seg # <<>> /\ GlobSegment(Tail(seg), Tail(pat))
    ELSE seg # <<>> /\ Head(seg) = Head(pat)
         /\ GlobSegment(Tail(seg), Tail(pat))

\* a leading dot is matched only by a pattern that starts with a dot
DotOk(seg, pat) ==
    ~(seg # <<>> /\ Head(seg) = "." /\ pat # <<>> /\ Head(pat) \in {"*", "?"})

RECURSIVE GlobPath(_, _)
GlobPath(segs, pats) ==
    IF pats = <<>> THEN segs = <<>>
    ELSE IF Head(pats) = <<"*", "*">>
        THEN GlobPath(segs, Tail(pats))
             \/ (segs # <<>> /\ DotOk(Head(segs), Head(pats))
                 /\ GlobPath(Tail(segs), pats))
    ELSE segs # <<>> /\ DotOk(Head(segs), Head(pats))
         /\ GlobSegment(Head(segs), Head(pats))
         /\ GlobPath(Tail(segs), Tail(pats))

\* minimatch(filePath, pattern) with the default options, for patterns made
\* of literal characters, "?", "*" and "**" segments
minimatch(filePath, pattern) ==
    GlobPath(Split(filePath, "/"), Split(pattern, "/"))

\* the predicate of parsedDiff.filter(...)
\* file.to ?? ""
PathOrEmpty(file) == IF file.to.t = "undefined" THEN <<>> ELSE file.to.v

\* faulty variant: the patterns are not consulted
RetainedAnyPath(file, excludePatterns) == PathOrEmpty(file) # <<>>

Retained(file, excludePatterns) ==
    IF PathOrEmpty(file) = <<>> THEN FALSE
    ELSE ~\E i \in 1..Len(excludePatterns) :
              minimatch(PathOrEmpty(file), excludePatterns[i])

RECURSIVE FilterDiff(_, _)
FilterDiff(parsedDiff, excludePatterns) ==
    IF parsedDiff = <<>> THEN <<>>
    ELSE (IF Retained(Head(parsedDiff), excludePatterns)
              THEN <<Head(parsedDiff)>> ELSE <<>>)
         \o FilterDiff(Tail(parsedDiff), excludePatterns)


(***************************************************************************)
(* Rule files                                                              *)
(***************************************************************************)
RuleFile(exists, readable, content) ==
    [exists |-> exists, readable |-> readable, content |-> content]

\* safeReadFile: a missing or unreadable file reads as the empty text
safeReadFile(file) ==
    IF ~file.exists THEN <<>>
    ELSE IF ~file.readable THEN <<>>
    ELSE Trim(file.content)

loadRules(commonFile, repoFile) ==
    [commonRules |-> safeReadFile(commonFile),
     repoRules |-> Trim(safeReadFile(repoFile))]

(***************************************************************************)
(* Prompts.  A prompt is the sequence of the parts of its template: the    *)
(* fixed lines, named, and the texts interpolated between them.            *)
(***************************************************************************)
\* "\n...(truncated)"
Marker ==
    <<"\n", ".", ".", ".", "(", "t", "r", "u", "n", "c", "a", "t", "e", "d", ")">>

\* faulty variant: a text of exactly maxChars characters is cut as well
truncateInclusive(text, maxChars) ==
    IF text = <<>> THEN <<>>
    ELSE IF maxChars <= 0 THEN <<>>
    ELSE IF Len(text) >= maxChars THEN SubSeq(text, 1, maxChars) \o Marker
    ELSE text

truncate(text, maxChars) ==
    IF text = <<>> THEN <<>>
    ELSE IF maxChars <= 0 THEN <<>>
    ELSE IF Len(text) > maxChars THEN SubSeq(text, 1, maxChars) \o Marker
    ELSE text

\* a fixed line of a template, and an interpolated text
Fixed(name) == [kind |-> "fixed", v |-> <<name>>]

Quoted(text) == [kind |-> "text", v |-> text]

\* "(none)"
NoneText == <<"(", "n", "o", "n", "e", ")">>

\* rules.repoRules && rules.repoRules.trim().length > 0
hasRepoRules(rules) == rules.repoRules # <<>> /\ Len(Trim(rules.repoRules)) > 0

repoSection(rules) ==
    IF hasRepoRules(rules)
        THEN <<Fixed("repoRulesHeader"), Quoted(Trim(rules.repoRules)),
               Fixed("repoRulesFooter")>>
        ELSE <<>>

priorityLine(rules) ==
    IF hasRepoRules(rules) THEN Fixed("repoRulesOverride")
    ELSE Fixed("commonRulesOnly")

\* faulty variant: repo rules of white space only count as rules
createSystemPromptUntrimmed(rules) ==
    <<Fixed("persona"),
      IF rules.repoRules # <<>> THEN Fixed("repoRulesOverride")
      ELSE Fixed("commonRulesOnly"),
      Fixed("commonRulesHeader"),
      Quoted(IF rules.commonRules # <<>> THEN rules.commonRules ELSE NoneText),
      Fixed("commonRulesFooter")>>
    \o (IF rules.repoRules # <<>>
            THEN <<Fixed("repoRulesHeader"), Quoted(Trim(rules.repoRules)),
                   Fixed("repoRulesFooter")>>
            ELSE <<>>)
    \o <<Fixed("writingRules")>>

createSystemPrompt(rules) ==
    <<Fixed("persona"), priorityLine(rules), Fixed("commonRulesHeader"),
      Quoted(IF rules.commonRules # <<>> THEN rules.commonRules ELSE NoneText),
      Fixed("commonRulesFooter")>>
    \o repoSection(rules)
    \o <<Fixed("writingRules")>>

\* the configured maximum length of the description in a prompt
MAX_PR_DESCRIPTION_CHARS == 2

\* "(생략)", the placeholder of an empty description
OmittedText == <<"(", "U+C0DD", "U+B7B5", ")">>

\* chunk.content and the listing of chunk.changes, by the chunk's place
ChunkText(path, index) == [kind |-> "chunk", v |-> <<path, index>>]

createUserPrompt(file, index, prDetails) ==
    <<Fixed("request"), Quoted(prDetails.title), Fixed("descriptionHeader"),
      With(truncate(prDetails.description, MAX_PR_DESCRIPTION_CHARS),
           LAMBDA desc : Quoted(IF desc # <<>> THEN desc ELSE OmittedText)),
      Fixed("descriptionFooter"), Quoted(StringOf(file.to)),
      ChunkText(file.to.v, index), Fixed("languageDirective")>>

\* faulty variant: the clause replaces the prompt
stricterSystemAlone(systemPrompt) == <<Fixed("stricterRule")>>

\* systemPrompt + the added rule of the retry
stricterSystem(systemPrompt) == systemPrompt \o <<Fixed("stricterRule")>>

(***************************************************************************)
(* getAIResponse, split at its two awaits                                  *)
(***************************************************************************)
NullResponse == [isNull |-> TRUE, list |-> <<>>]

ListResponse(list) == [isNull |-> FALSE, list |-> list]

\* After the first call: return (done) or go on to the retry.  An exception
\* of the call or of the language check is caught and null is returned.
AfterFirst(first, check) ==
    CASE check = "throw" ->
            [done |-> TRUE, value |-> NullResponse, reviews |-> <<>>]
      [] check = "pass" ->
            [done |-> TRUE, value |-> ListResponse(first.reviews),
             reviews |-> first.reviews]
      [] check = "fail" ->
            [done |-> FALSE, value |-> NullResponse, reviews |-> first.reviews]

getAIResponseFirst(response) ==
    With(callOpenAIOnce(response), LAMBDA first :
        AfterFirst(first, IF first.threw THEN "throw"
                          ELSE allKoreanOrEmpty(first.reviews)))

\* faulty variant: the retry's items are added to the first attempt's
getAIResponseRetryMerged(reviews, response) ==
    With(callOpenAIOnce(response), LAMBDA second :
        IF second.threw THEN NullResponse
        ELSE ListResponse(reviews \o second.reviews))

\* faulty variant: a failed retry falls back to the first attempt
getAIResponseRetryFallback(reviews, response) ==
    With(callOpenAIOnce(response), LAMBDA second :
        IF second.threw THEN ListResponse(reviews)
        ELSE ListResponse(second.reviews))

\* After the retry call: its parsed result is returned unchecked, null when
\* the call threw.  reviews is the first attempt's list.
getAIResponseRetry(reviews, response) ==
    With(callOpenAIOnce(response), LAMBDA second :
        IF second.threw THEN NullResponse
        ELSE ListResponse(second.reviews))


(***************************************************************************)
(* What the environment can supply                                         *)
(***************************************************************************)
\* the most files a diff holds
MaxFiles == 2

PathDoc == <<"a", ".", "m", "d">>                \* a.md

PathSrc == <<"s", "/", "b", ".", "t", "s">>      \* s/b.ts

\* the files a diff is made of, each with its number of chunks; the last
\* has no target path
FileCatalogue ==
    {DiffFile(JString(PathDoc), 1), DiffFile(JString(PathSrc), 2),
     DiffFile(JString(DevNull), 1), DiffFile(JUndefined, 1)}

\* a diff lists a file once
ParsedDiffs ==
    {d \in UNION {[1..n -> FileCatalogue] : n \in 0..MaxFiles} :
        \A i, j \in DOMAIN d : d[i] = d[j] => i = j}

\* the data of a diff response: undefined, the empty text, or a text that
\* parseDiff turns into files
DiffData ==
    {[kind |-> "undefined", files |-> <<>>], [kind |-> "empty", files |-> <<>>]}
        \cup {[kind |-> "text", files |-> d] : d \in ParsedDiffs}

NoDiff == [kind |-> "unset", files |-> <<>>]

EventActions == {"opened", "synchronize", "closed"}

\* values of the exclude input: unset, "*.md", " *.md , ,**/*.ts"
ExcludeInputs ==
    {<<>>,
     <<"*", ".", "m", "d">>,
     <<" ", "*", ".", "m", "d", " ", ",", " ", ",",
       "*", "*", "/", "*", ".", "t", "s">>}

\* the common and the repository rule file as found on disk
RuleFileInputs ==
    {<<RuleFile(TRUE, TRUE, <<"c", " ">>), RuleFile(FALSE, FALSE, <<>>)>>,
     <<RuleFile(TRUE, FALSE, <<"c">>), RuleFile(TRUE, TRUE, <<" ", "e", "\t">>)>>,
     <<RuleFile(TRUE, TRUE, <<"c">>), RuleFile(TRUE, TRUE, <<" ", " ">>)>>}

\* prResponse.data: a title, and a body longer than the prompt admits
PullRequests ==
    {[title |-> JString(<<"t">>), body |-> JString(<<"a", "b", "c">>)]}

\* x ?? ""
OrEmpty(x) == IF x.t \in {"null", "undefined"} THEN <<>> ELSE x.v

Korean == JString(<<"U+D55C", "U+AE00">>)

English == JString(<<"f", "i", "x">>)

Line(s) == JString(s)

BodyNotJson == Body("error", "undefined", <<>>)

\* {"reviews": "none"}
BodyNoArray == Body("object", "string", <<>>)

BodyEmpty == Body("object", "array", <<>>)

BodyKorean == Body("object", "array", <<Item(Line(<<"4", "2">>), Korean)>>)

BodyEnglish == Body("object", "array", <<Item(Line(<<"4", "2">>), English)>>)

\* line numbers "0", "-3", "7", "abc"
BodyMixed ==
    Body("object", "array",
         <<Item(Line(<<"0">>), Korean), Item(Line(<<"-", "3">>), Korean),
           Item(Line(<<"7">>), Korean), Item(Line(<<"a", "b", "c">>), Korean)>>)

\* line numbers 1.5, "1e2", true, "", null
BodyOdd ==
    Body("object", "array",
         <<Item(JNumber(<<"1", ".", "5">>), Korean),
           Item(Line(<<"1", "e", "2">>), Korean), Item(JBool(TRUE), Korean),
           Item(Line(<<>>), Korean), Item(JNull, Korean)>>)

\* {"reviews": [{"lineNumber": "3", ...}, null]}
BodyWithNull ==
    Body("object", "array", <<Item(Line(<<"3">>), Korean), ItemNull>>)

\* {"reviews": [null, {"lineNumber": "4", "reviewComment": "fix"}]}
BodyNullFirst ==
    Body("object", "array", <<ItemNull, Item(Line(<<"4">>), English)>>)

\* a comment of white space only
BodyBlank == Body("object", "array", <<Item(Line(<<"5">>), JString(<<" ">>))>>)

Bodies ==
    {BodyNotJson, BodyNoArray, BodyEmpty, BodyKorean, BodyEnglish, BodyMixed,
     BodyOdd, BodyWithNull, BodyNullFirst, BodyBlank}

\* what one completion request can come back with
Responses ==
    {Rejected, Resolved(FALSE, FALSE, EmptyObjectBody),
     Resolved(TRUE, FALSE, EmptyObjectBody)}
        \cup {Resolved(TRUE, TRUE, b) : b \in Bodies}

(***************************************************************************)
(* The run of main()                                                       *)
(***************************************************************************)
VARIABLES
    pc,             \* where main() stands
    eventAction,    \* the action of the event payload
    prDetails,      \* title and description of the pull request
    diff,           \* the diff acquired
    excludeRaw,     \* the exclude input
    filteredDiff,   \* the files kept by the exclusion filter
    rules,          \* the rule bundle
    systemPrompt,   \* analyzeCode: the system prompt, built once
    userPrompt,     \* analyzeCode: the user prompt of the current chunk
    fi, ci,         \* analyzeCode: index of the current file and chunk
    reviews,        \* getAIResponse: the first attempt's list
    aiResponse,     \* analyzeCode: what getAIResponse returned
    comments,       \* analyzeCode: the accumulated comment records
    exitCode,       \* "none" while running, then "zero" or "nonzero"
    console,        \* what main() and its catch handler wrote to the console
    chunkCalls,     \* history: the responses to the current chunk's calls
    modelCalls,     \* history: every completion request made
    origin,         \* history: the (file, chunk) each comment came from
    platformCalls,  \* history: every request to the hosting platform
    submissions,    \* history: every review submitted
    input, output   \* a function applied on its own: arguments and result

vars ==
    <<pc, eventAction, prDetails, diff, excludeRaw, filteredDiff, rules,
      systemPrompt, userPrompt, fi, ci, reviews, aiResponse, comments,
      exitCode, console, chunkCalls, modelCalls, origin, platformCalls,
      submissions, input, output>>

NoDetails == [title |-> <<>>, description |-> <<>>]

NoRules == [commonRules |-> <<>>, repoRules |-> <<>>]

NoInput == [fn |-> "none", text |-> <<>>, maxChars |-> 0, rules |-> NoRules]

NoOutput == [done |-> FALSE, value |-> <<>>]

\* the process has started, main() has not run yet
Constructed ==
    /\ pc = "start"
    /\ prDetails = NoDetails
    /\ diff = NoDiff
    /\ excludeRaw = <<>>
    /\ filteredDiff = <<>>
    /\ rules = NoRules
    /\ systemPrompt = <<>>
    /\ userPrompt = <<>>
    /\ fi = 0
    /\ ci = 0
    /\ reviews = <<>>
    /\ aiResponse = NullResponse
    /\ comments = <<>>
    /\ exitCode = "none"
    /\ console = <<>>
    /\ chunkCalls = <<>>
    /\ modelCalls = <<>>
    /\ origin = <<>>
    /\ platformCalls = <<>>
    /\ submissions = <<>>

Init ==
    /\ Constructed
    /\ eventAction \in EventActions
    /\ input = NoInput
    /\ output = NoOutput

\* an uncaught error reaches main().catch: console.error, process.exit(1)
Fatal ==
    /\ pc' = "failed"
    /\ exitCode' = "nonzero"
    /\ console' = Append(console, "Error:")

\* main() returns
Return ==
    /\ pc' = "done"
    /\ exitCode' = "zero"

\* one request to the hosting platform and whether it was rejected
PlatformCall(request, failed) == [request |-> request, failed |-> failed]

\* getPRDetails: read the event file, then fetch the pull request
GetPRDetails ==
    /\ pc = "start"
    /\ \E outcome \in {"ok", "eventFileError", "apiError"}, data \in PullRequests :
        /\ platformCalls' = IF outcome = "eventFileError" THEN platformCalls
                            ELSE Append(platformCalls,
                                        PlatformCall("pulls.get", outcome # "ok"))
        /\ IF outcome = "ok"
              THEN /\ pc' = "dispatch"
                   /\ prDetails' = [title |-> OrEmpty(data.title),
                                    description |-> OrEmpty(data.body)]
                   /\ UNCHANGED <<exitCode, console>>
              ELSE Fatal /\ UNCHANGED prDetails
    /\ UNCHANGED <<eventAction, diff, excludeRaw, filteredDiff, rules,
                   systemPrompt, userPrompt, fi, ci, reviews, aiResponse,
                   comments, chunkCalls, modelCalls, origin, submissions,
                   input, output>>

\* String(response.data)
StringOfData(data) ==
    IF data.kind = "undefined" THEN [kind |-> "text", files |-> <<>>] ELSE data

\* faulty variant: every event but "opened" is taken for "synchronize"
DiffSourceElseCompare(action) ==
    IF action = "opened" THEN "pulls.get.diff" ELSE "repos.compareCommits"

\* the request the event dispatch of main() makes for an action
DiffSource(action) ==
    CASE action = "opened" -> "pulls.get.diff"
      [] action = "synchronize" -> "repos.compareCommits"
      [] OTHER -> "none"

\* the event dispatch of main(): fetch the diff the event asks for
AcquireDiff ==
    /\ pc = "dispatch"
    /\ \E request \in {DiffSource(eventAction)} :
          IF request = "none"
             THEN /\ console' = Append(console, "Unsupported event:")
                  /\ Return
                  /\ UNCHANGED <<platformCalls, diff>>
             ELSE \E ok \in BOOLEAN, data \in DiffData :
                  /\ platformCalls' = Append(platformCalls, PlatformCall(request, ~ok))
                  /\ IF ok THEN /\ diff' = IF request = "pulls.get.diff"
                                              THEN data
                                              ELSE StringOfData(data)
                                /\ pc' = "diffAcquired"
                                /\ UNCHANGED <<exitCode, console>>
                           ELSE Fatal /\ UNCHANGED diff
    /\ UNCHANGED <<eventAction, prDetails, excludeRaw, filteredDiff, rules,
                   systemPrompt, userPrompt, fi, ci, reviews, aiResponse,
                   comments, chunkCalls, modelCalls, origin, submissions,
                   input, output>>

\* faulty variant: only a missing diff counts, an empty one does not
DiffMissingUndefined(d) == d.kind = "undefined"

\* !diff
DiffMissing(d) == d.kind \in {"undefined", "empty"}

\* "No diff found", or parseDiff and the exclusion filter
FilterFiles ==
    /\ pc = "diffAcquired"
    /\ IF DiffMissing(diff)
          THEN /\ console' = Append(console, "No diff found")
               /\ Return
               /\ UNCHANGED <<excludeRaw, filteredDiff>>
          ELSE \E raw \in ExcludeInputs :
                  /\ excludeRaw' = raw
                  /\ filteredDiff' = FilterDiff(diff.files, ExcludePatterns(raw))
                  /\ pc' = "diffFiltered"
                  /\ UNCHANGED <<exitCode, console>>
    /\ UNCHANGED <<eventAction, prDetails, diff, rules, systemPrompt,
                   userPrompt, fi, ci, reviews, aiResponse, comments,
                   chunkCalls, modelCalls, origin, platformCalls, submissions,
                   input, output>>

LoadRules ==
    /\ pc = "diffFiltered"
    /\ \E files \in RuleFileInputs : rules' = loadRules(files[1], files[2])
    /\ pc' = "rulesLoaded"
    /\ UNCHANGED <<eventAction, prDetails, diff, excludeRaw, filteredDiff,
                   systemPrompt, userPrompt, fi, ci, reviews, aiResponse,
                   comments, exitCode, console, chunkCalls, modelCalls, origin,
                   platformCalls, submissions, input, output>>

\* analyzeCode is entered: comments = [], the system prompt is built, the
\* loops start
StartAnalyze ==
    /\ pc = "rulesLoaded"
    /\ comments' = <<>>
    /\ systemPrompt' = createSystemPrompt(rules)
    /\ fi' = 1
    /\ ci' = 1
    /\ pc' = "loop"
    /\ UNCHANGED <<eventAction, prDetails, diff, excludeRaw, filteredDiff,
                   rules, userPrompt, reviews, aiResponse, exitCode, console,
                   chunkCalls, modelCalls, origin, platformCalls, submissions,
                   input, output>>

\* faulty variant: no file counts as deleted
IsDeletedNever(file) == FALSE

\* file.to === "/dev/null"
IsDeleted(file) == file.to = JString(DevNull)

InLoop == pc = "loop" /\ fi <= Len(filteredDiff)

\* faulty variant: the exit test is one past the length, so it never holds
LoopOverNever == pc = "loop" /\ fi > Len(filteredDiff) + 1

\* faulty variant: the loop is left before the current file is done
LoopOverEarly == pc = "loop" /\ fi >= Len(filteredDiff)

\* the for-of over the files has no file left
LoopOver == pc = "loop" /\ fi > Len(filteredDiff)

\* the outer loop is over: analyzeCode returns the comments
AnalyzeDone ==
    /\ LoopOver
    /\ pc' = "aggregated"
    /\ UNCHANGED <<eventAction, prDetails, diff, excludeRaw, filteredDiff,
                   rules, systemPrompt, userPrompt, fi, ci, reviews,
                   aiResponse, comments, exitCode, console, chunkCalls,
                   modelCalls, origin, platformCalls, submissions, input,
                   output>>

\* continue: a deleted file is passed over
SkipDeleted ==
    /\ InLoop
    /\ IsDeleted(filteredDiff[fi])
    /\ fi' = fi + 1
    /\ ci' = 1
    /\ UNCHANGED <<pc, eventAction, prDetails, diff, excludeRaw, filteredDiff,
                   rules, systemPrompt, userPrompt, reviews, aiResponse,
                   comments, exitCode, console, chunkCalls, modelCalls, origin,
                   platformCalls, submissions, input, output>>

\* the inner loop is over: on to the next file
NextFile ==
    /\ InLoop
    /\ ~IsDeleted(filteredDiff[fi])
    /\ ci > filteredDiff[fi].chunks
    /\ fi' = fi + 1
    /\ ci' = 1
    /\ UNCHANGED <<pc, eventAction, prDetails, diff, excludeRaw, filteredDiff,
                   rules, systemPrompt, userPrompt, reviews, aiResponse,
                   comments, exitCode, console, chunkCalls, modelCalls, origin,
                   platformCalls, submissions, input, output>>

\* one completion request: the chunk it is for and the two prompts sent
ModelCall(file, attempt, system, user) ==
    [path |-> file.to, file |-> fi, chunk |-> ci, attempt |-> attempt,
     system |-> system, user |-> user]

\* the user prompt is built, then getAIResponse runs up to the return or
\* the retry
FirstCall ==
    /\ InLoop
    /\ ~IsDeleted(filteredDiff[fi])
    /\ ci <= filteredDiff[fi].chunks
    /\ \E response \in Responses :
        \E r \in {getAIResponseFirst(response)} :
            /\ chunkCalls' = <<response>>
            /\ reviews' = r.reviews
            /\ aiResponse' = r.value
            /\ pc' = IF r.done THEN "returned" ELSE "retry"
    /\ \E prompt \in {createUserPrompt(filteredDiff[fi], ci, prDetails)} :
        /\ userPrompt' = prompt
        /\ modelCalls' = Append(modelCalls,
                                ModelCall(filteredDiff[fi], 1, systemPrompt, prompt))
    /\ UNCHANGED <<eventAction, prDetails, diff, excludeRaw, filteredDiff,
                   rules, systemPrompt, fi, ci, comments, exitCode, console,
                   origin, platformCalls, submissions, input, output>>

\* getAIResponse from the retry call to the return
RetryCall ==
    /\ pc = "retry"
    /\ \E response \in Responses :
        /\ chunkCalls' = Append(chunkCalls, response)
        /\ aiResponse' = getAIResponseRetry(reviews, response)
    /\ modelCalls' = Append(modelCalls,
                            ModelCall(filteredDiff[fi], 2,
                                      stricterSystem(systemPrompt), userPrompt))
    /\ pc' = "returned"
    /\ UNCHANGED <<eventAction, prDetails, diff, excludeRaw, filteredDiff,
                   rules, systemPrompt, userPrompt, fi, ci, reviews, comments,
                   exitCode, console, origin, platformCalls, submissions,
                   input, output>>

\* faulty variant: unshift in place of push
PushCommentsFront(list, newComments) == newComments \o list

\* comments.push(...newComments)
PushComments(list, newComments) == list \o newComments

\* analyzeCode after getAIResponse: null is passed over, a list is mapped
\* and pushed; an exception of createComment is caught nowhere
MapChunk ==
    /\ pc = "returned"
    /\ IF aiResponse.isNull
          THEN /\ pc' = "loop"
               /\ ci' = ci + 1
               /\ UNCHANGED <<comments, origin, exitCode, console>>
          ELSE \E new \in {createComment(filteredDiff[fi], aiResponse.list)} :
                  IF new.threw
                     THEN /\ Fatal
                          /\ UNCHANGED <<ci, comments, origin>>
                     ELSE /\ comments' = IF Len(new.out) > 0
                                             THEN PushComments(comments, new.out)
                                             ELSE comments
                          /\ origin' = origin
                                \o [i \in 1..Len(new.out) |-> <<fi, ci>>]
                          /\ pc' = "loop"
                          /\ ci' = ci + 1
                          /\ UNCHANGED <<exitCode, console>>
    /\ reviews' = <<>>
    /\ aiResponse' = NullResponse
    /\ chunkCalls' = <<>>
    /\ userPrompt' = <<>>
    /\ UNCHANGED <<eventAction, prDetails, diff, excludeRaw, filteredDiff,
                   rules, systemPrompt, fi, modelCalls, platformCalls,
                   submissions, input, output>>

\* faulty variant: the review is submitted whatever the list holds
ShouldSubmitAlways(list) == TRUE

\* comments.length > 0
ShouldSubmit(list) == Len(list) > 0

\* createReviewComment: one review with every comment, event COMMENT
SubmitReview ==
    /\ pc = "aggregated"
    /\ ShouldSubmit(comments)
    /\ submissions' = Append(submissions, [comments |-> comments, event |-> "COMMENT"])
    /\ \E ok \in BOOLEAN :
        /\ platformCalls' = Append(platformCalls,
                                   PlatformCall("pulls.createReview", ~ok))
        /\ IF ok THEN Return /\ UNCHANGED console ELSE Fatal
    /\ UNCHANGED <<eventAction, prDetails, diff, excludeRaw, filteredDiff,
                   rules, systemPrompt, userPrompt, fi, ci, reviews,
                   aiResponse, comments, chunkCalls, modelCalls, origin,
                   input, output>>

\* nothing to submit: main() returns
SkipSubmit ==
    /\ pc = "aggregated"
    /\ ~ShouldSubmit(comments)
    /\ Return
    /\ UNCHANGED <<eventAction, prDetails, diff, excludeRaw, filteredDiff,
                   rules, systemPrompt, userPrompt, fi, ci, reviews,
                   aiResponse, comments, console, chunkCalls, modelCalls,
                   origin, platformCalls, submissions, input, output>>

Next ==
    \/ GetPRDetails
    \/ AcquireDiff
    \/ FilterFiles
    \/ LoadRules
    \/ StartAnalyze
    \/ AnalyzeDone
    \/ SkipDeleted
    \/ NextFile
    \/ FirstCall
    \/ RetryCall
    \/ MapChunk
    \/ SubmitReview
    \/ SkipSubmit

Spec == Init /\ [][Next]_vars

\* every step the code can take is eventually taken: no call hangs
FairSpec == Spec /\ WF_vars(Next)

(***************************************************************************)
(* truncate and createSystemPrompt applied on their own                    *)
(***************************************************************************)
MaxChars == 3

MaxTextLen == 4

RECURSIVE TextsOfLen(_)
TextsOfLen(n) ==
    IF n = 0 THEN {<<>>}
    ELSE {Append(t, c) : t \in TextsOfLen(n - 1), c \in {"a", "b"}}

Texts == UNION {TextsOfLen(n) : n \in 0..MaxTextLen}

TruncateInputs ==
    {[fn |-> "truncate", text |-> t, maxChars |-> n, rules |-> NoRules] :
        t \in Texts, n \in (-1)..MaxChars}

RuleBundles ==
    {[commonRules |-> c, repoRules |-> r] :
        c \in {<<>>, <<"c">>},
        r \in {<<>>, <<" ">>, <<"r">>, <<" ", "r", " ">>, <<" ", "\n">>}}

SystemPromptInputs ==
    {[fn |-> "createSystemPrompt", text |-> <<>>, maxChars |-> 0, rules |-> b] :
        b \in RuleBundles}

InitPure ==
    /\ Constructed
    /\ eventAction = "opened"
    /\ input \in TruncateInputs \cup SystemPromptInputs
    /\ output = NoOutput

ApplyTruncate ==
    /\ input.fn = "truncate"
    /\ ~output.done
    /\ output' = [done |-> TRUE, value |-> truncate(input.text, input.maxChars)]
    /\ UNCHANGED <<pc, eventAction, prDetails, diff, excludeRaw, filteredDiff,
                   rules, systemPrompt, userPrompt, fi, ci, reviews,
                   aiResponse, comments, exitCode, console, chunkCalls,
                   modelCalls, origin, platformCalls, submissions, input>>

ApplyCreateSystemPrompt ==
    /\ input.fn = "createSystemPrompt"
    /\ ~output.done
    /\ output' = [done |-> TRUE, value |-> createSystemPrompt(input.rules)]
    /\ UNCHANGED <<pc, eventAction, prDetails, diff, excludeRaw, filteredDiff,
                   rules, systemPrompt, userPrompt, fi, ci, reviews,
                   aiResponse, comments, exitCode, console, chunkCalls,
                   modelCalls, origin, platformCalls, submissions, input>>

NextPure ==
    \/ ApplyTruncate
    \/ ApplyCreateSystemPrompt

SpecPure == InitPure /\ [][NextPure]_vars


(***************************************************************************)
(* Properties                                                              *)
(***************************************************************************)
\* the parsed result of the i-th call made for the current chunk
ParsedCall(i) == callOpenAIOnce(chunkCalls[i])

\* the first call of the current chunk returned a list that fails the
\* language check
FirstFailsCheck ==
    /\ Len(chunkCalls) >= 1
    /\ ~ParsedCall(1).threw
    /\ allKoreanOrEmpty(ParsedCall(1).reviews) = "fail"

\* the number of completion requests made for chunk c of file f
CallsOfChunk(f, c) ==
    Cardinality({i \in 1..Len(modelCalls) :
                    modelCalls[i].file = f /\ modelCalls[i].chunk = c})

\* the list holds a comment that has text and no Hangul character
HasFailingComment(list) ==
    \E i \in 1..Len(list) : list[i].t = "object" /\ ~KoreanOrEmpty(list[i])

\* C1: when the first response of a chunk parses to a list in which a
\* comment fails the language check, exactly one retry call is made (two
\* calls for the chunk) and getAIResponse returns the parsed result of the
\* retry, also when that result fails the check again.
C1_RetryOnceReturnsRetry ==
    (/\ pc = "returned"
     /\ ~ParsedCall(1).threw
     /\ HasFailingComment(ParsedCall(1).reviews)) =>
        /\ Len(chunkCalls) = 2
        /\ CallsOfChunk(fi, ci) = 2
        /\ ~ParsedCall(2).threw =>
              aiResponse = ListResponse(ParsedCall(2).reviews)

\* C2: no chunk gets more than two calls, the second call is made only
\* after a first response that failed the language check, and the list
\* returned is the parsed first response (when it passed) or the parsed
\* second response, never a mix of both.
C2_AtMostTwoCallsNoMerge ==
    /\ \A i \in 1..Len(modelCalls) :
          CallsOfChunk(modelCalls[i].file, modelCalls[i].chunk) <= 2
    /\ pc = "retry" => Len(chunkCalls) = 1 /\ FirstFailsCheck
    /\ pc = "returned" =>
          /\ Len(chunkCalls) \in {1, 2}
          /\ CallsOfChunk(fi, ci) = Len(chunkCalls)
          /\ Len(chunkCalls) = 2 => FirstFailsCheck
          /\ ~aiResponse.isNull =>
                \/ /\ Len(chunkCalls) = 1
                   /\ ~ParsedCall(1).threw
                   /\ allKoreanOrEmpty(ParsedCall(1).reviews) = "pass"
                   /\ aiResponse.list = ParsedCall(1).reviews
                \/ /\ Len(chunkCalls) = 2
                   /\ ~ParsedCall(2).threw
                   /\ aiResponse.list = ParsedCall(2).reviews

C2_Witness ==
    /\ pc = "returned"
    /\ Len(chunkCalls) = 2
    /\ ~aiResponse.isNull
    /\ aiResponse.list # <<>>
    /\ ParsedCall(1).reviews # <<>>
    /\ aiResponse.list # ParsedCall(1).reviews

\* a request that fails at transport or protocol level: the promise is
\* rejected, or the response carries no choice
TransportFailure(response) ==
    response.status = "rejected" \/ ~response.hasChoice

\* the step after getAIResponse leaves the comments alone and goes on with
\* the next chunk, the run still going
ChunkSkipped ==
    /\ comments' = comments
    /\ pc' = "loop"
    /\ fi' = fi
    /\ ci' = ci + 1
    /\ exitCode' = exitCode
    /\ exitCode = "none"

\* C3: when the first call or the retry call of a chunk fails at transport
\* level, getAIResponse returns null, the chunk adds no comment, and the
\* loop goes on with the next chunk without failing the run.
C3_TransportFailureSkipsChunk ==
    [][(pc = "returned"
        /\ \E i \in 1..Len(chunkCalls) : TransportFailure(chunkCalls[i]))
       => (aiResponse.isNull /\ ChunkSkipped)]_vars

C3_Witness ==
    /\ pc = "returned"
    /\ Len(chunkCalls) = 2
    /\ TransportFailure(chunkCalls[2])
    /\ ParsedCall(1).reviews # <<>>
    /\ comments # <<>>
    /\ ci < filteredDiff[fi].chunks

\* the response has a text that is not JSON or whose reviews is no array
Malformed(response) ==
    /\ response.status = "resolved"
    /\ response.hasChoice
    /\ response.hasContent
    /\ \/ response.body.parse = "error"
       \/ ~(response.body.parse = "object" /\ response.body.reviewsType = "array")

\* C4: a response text that is not JSON, or whose reviews is not an array,
\* parses to the empty list without an exception; getAIResponse returns the
\* empty list (not null), the chunk adds no comment and the run goes on
\* with the next chunk.
C4_MalformedBodyYieldsEmptyList ==
    [][(pc = "returned"
        /\ \E i \in 1..Len(chunkCalls) : Malformed(chunkCalls[i]))
       => /\ Malformed(chunkCalls[Len(chunkCalls)])
          /\ ParsedCall(Len(chunkCalls)) = [threw |-> FALSE, reviews |-> <<>>]
          /\ aiResponse = ListResponse(<<>>)
          /\ ChunkSkipped]_vars

C4_Witness ==
    /\ pc = "returned"
    /\ Len(chunkCalls) = 2
    /\ Malformed(chunkCalls[2])
    /\ chunkCalls[2].body.parse = "error"
    /\ comments # <<>>

\* line is a finite, strictly positive integer
PositiveInteger(line) == NumberIsInteger(line) /\ ~NumberLeqZero(line)

\* C5: every comment record, accumulated or submitted, has a line that is a
\* finite, strictly positive integer, whatever lineNumber the response
\* carried.
C5_LinePositiveInteger ==
    /\ \A i \in 1..Len(comments) : PositiveInteger(comments[i].line)
    /\ \A k \in 1..Len(submissions) :
          \A i \in 1..Len(submissions[k].comments) :
              PositiveInteger(submissions[k].comments[i].line)

\* the item's lineNumber parses to a positive integer
ValidItem(item) ==
    item.t = "object" /\ PositiveInteger(ToNumber(item.lineNumber))

\* the record a valid item stands for
RecordOfItem(file, item) ==
    CommentRecord(item.reviewComment, file.to.v, ToNumber(item.lineNumber))

\* the records of the valid items of a list, in the order of the items
RECURSIVE RecordsOfValid(_, _, _)
RecordsOfValid(file, items, i) ==
    IF i > Len(items) THEN <<>>
    ELSE (IF ValidItem(items[i]) THEN <<RecordOfItem(file, items[i])>> ELSE <<>>)
         \o RecordsOfValid(file, items, i + 1)

IntegerLine(record) == NumberIsInteger(record.line)

\* what createComment makes of the list getAIResponse returned
MappedNow == createComment(filteredDiff[fi], aiResponse.list)

\* C6: createComment filters item by item: every item whose lineNumber
\* parses to a positive integer yields one record (that line, the item's
\* comment, the file's path), an item with a zero, negative or non-numeric
\* lineNumber yields none, an invalid item never removes a valid one, and
\* the records keep the order of their items.
C6_ItemGranularity ==
    (pc = "returned" /\ ~aiResponse.isNull) =>
        /\ ~MappedNow.threw
        /\ SelectSeq(MappedNow.out, IntegerLine)
              = RecordsOfValid(filteredDiff[fi], aiResponse.list, 1)
        /\ \A i \in 1..Len(MappedNow.out) :
              /\ NumberIsFinite(MappedNow.out[i].line)
              /\ ~NumberLeqZero(MappedNow.out[i].line)

\* the file has no target path or its path matches an exclusion pattern
Excluded(file) ==
    \/ PathOrEmpty(file) = <<>>
    \/ \E i \in 1..Len(ExcludePatterns(excludeRaw)) :
          minimatch(PathOrEmpty(file), ExcludePatterns(excludeRaw)[i])

NotExcluded(file) == ~Excluded(file)

\* no completion request and no comment, accumulated or submitted, is for
\* the file
Untouched(file) ==
    /\ \A i \in 1..Len(modelCalls) : modelCalls[i].path # file.to
    /\ \A i \in 1..Len(comments) : comments[i].path # PathOrEmpty(file)
    /\ \A k \in 1..Len(submissions) :
          \A i \in 1..Len(submissions[k].comments) :
              submissions[k].comments[i].path # PathOrEmpty(file)

\* C7: a file whose path matches an exclusion pattern, or that has no
\* path, is not in the filtered list, gets no model call and no comment;
\* the other files are kept in diff order.
C7_ExcludedFilesUntouched ==
    /\ pc # "diffAcquired" =>
          filteredDiff = SelectSeq(diff.files, NotExcluded)
    /\ \A i \in 1..Len(diff.files) :
          Excluded(diff.files[i]) => Untouched(diff.files[i])

C7_Witness ==
    /\ pc = "done"
    /\ comments # <<>>
    /\ Len(filteredDiff) = 1
    /\ \E i \in 1..Len(diff.files) :
          /\ diff.files[i].to = JString(PathDoc)
          /\ Excluded(diff.files[i])
          /\ i < Len(diff.files)

\* C8: a file whose target path is "/dev/null" gets no model call and
\* contributes no comment, whatever its chunks.
C8_DeletedFilesUntouched ==
    \A i \in 1..Len(diff.files) :
        diff.files[i].to = JString(DevNull) => Untouched(diff.files[i])

C8_Witness ==
    /\ pc = "done"
    /\ comments # <<>>
    /\ \E i \in 1..Len(filteredDiff) :
          /\ filteredDiff[i].to = JString(DevNull)
          /\ filteredDiff[i].chunks >= 1
          /\ i < Len(filteredDiff)

\* analyzeCode has returned
LoopEnded == pc \in {"aggregated", "done", "failed"} /\ fi > Len(filteredDiff) /\ fi >= 1

\* C9: once the loop has ended the run submits exactly when the comment
\* list is not empty: then one review is submitted in the whole run, with
\* every accumulated comment and event COMMENT; with an empty list nothing
\* is submitted and the run ends normally.
C9_SubmitIffNonEmpty ==
    /\ Len(submissions) <= 1
    /\ submissions # <<>> =>
          /\ LoopEnded
          /\ comments # <<>>
          /\ submissions[1] = [comments |-> comments, event |-> "COMMENT"]
    /\ (LoopEnded /\ pc # "aggregated") =>
          /\ Len(submissions) = 1 <=> comments # <<>>
          /\ comments = <<>> => pc = "done" /\ exitCode = "zero"

C9_Witness ==
    /\ pc = "done"
    /\ Len(submissions) = 1
    /\ Len(submissions[1].comments) >= 3

\* s is a prefix of t
IsPrefix(s, t) == Len(s) <= Len(t) /\ SubSeq(t, 1, Len(s)) = s

\* chunk a is not after chunk b in diff order
NotAfter(a, b) == a[1] < b[1] \/ (a[1] = b[1] /\ a[2] <= b[2])

\* C10: the comment list only grows at its end, a chunk that yields null
\* or no valid item leaves it as it is, and the comments follow diff
\* order: a comment never precedes one of an earlier chunk.
C10_AppendOnlyDiffOrder ==
    [][/\ pc # "rulesLoaded" => IsPrefix(comments, comments')
       /\ (pc = "returned" /\ (aiResponse.isNull \/ MappedNow.out = <<>>))
             => comments' = comments
       /\ Len(origin') = Len(comments')
       /\ \A i, j \in 1..Len(origin') :
             i < j => NotAfter(origin'[i], origin'[j])
       /\ \A k \in 1..Len(submissions') :
             submissions'[k].comments = comments']_vars

C10_Witness ==
    /\ pc = "done"
    /\ Len(submissions) = 1
    /\ Len(comments) >= 3
    /\ origin[1][1] < origin[Len(origin)][1]


\* the event's action is one main() has no branch for
Unsupported == eventAction \notin {"opened", "synchronize"}

\* main() has returned or its catch handler has run
Terminal == pc \in {"done", "failed"}

\* nothing was asked of the platform but the pull request, and nothing of
\* the model
NothingDone ==
    /\ \A i \in 1..Len(platformCalls) : platformCalls[i].request = "pulls.get"
    /\ modelCalls = <<>>
    /\ submissions = <<>>

\* C11 as stated: for every event whose action is neither "opened" nor
\* "synchronize" the run fetches no diff, makes no model call, submits no
\* review and ends with exit status zero after one log line.
C11_UnsupportedEventNoOp ==
    Unsupported =>
        /\ NothingDone
        /\ Terminal =>
              /\ pc = "done"
              /\ exitCode = "zero"
              /\ console = <<"Unsupported event:">>

\* C11 as amended: for such an event the run fetches no diff, makes no
\* model call and submits no review; once getPRDetails has succeeded it
\* ends with exit status zero after the log line, and the only way it fails
\* is the failure of getPRDetails, before the action is looked at.
C11_UnsupportedEventNoOpAfterDetails ==
    Unsupported =>
        /\ NothingDone
        /\ pc \in {"start", "dispatch", "done", "failed"}
        /\ pc = "done" =>
              /\ exitCode = "zero"
              /\ console = <<"Unsupported event:">>
              /\ platformCalls = <<PlatformCall("pulls.get", FALSE)>>
        /\ pc = "failed" =>
              /\ exitCode = "nonzero"
              /\ prDetails = NoDetails
              /\ console = <<"Error:">>

C11_Witness ==
    /\ eventAction = "closed"
    /\ pc = "done"
    /\ prDetails # NoDetails
    /\ console = <<"Unsupported event:">>


\* a request to the hosting platform was rejected
PlatformFailure == \E i \in 1..Len(platformCalls) : platformCalls[i].failed

\* C12: the process exits with a non-zero status exactly when a call to the
\* hosting platform fails (pull request, diff, review submission); no other
\* failure, of the model, of its output, of a review item or of a rule
\* file, ends the run with a non-zero status.
C12_NonZeroExitIffPlatformFailure ==
    /\ exitCode = "nonzero" <=> PlatformFailure
    /\ PlatformFailure => pc = "failed"


\* truncate has been applied to the arguments drawn
Truncated == input.fn = "truncate" /\ output.done

\* C13: truncate(text, 0) is the empty string; for N > 0, truncate(text, N)
\* is text itself when text has at most N characters, and otherwise the
\* first N characters of text followed by the truncation marker, N plus the
\* marker's length in all.
C13_TruncateContract ==
    Truncated =>
        /\ input.maxChars = 0 => output.value = <<>>
        /\ (input.maxChars > 0 /\ Len(input.text) <= input.maxChars) =>
              output.value = input.text
        /\ (input.maxChars > 0 /\ Len(input.text) > input.maxChars) =>
              /\ Len(output.value) = input.maxChars + Len(Marker)
              /\ SubSeq(output.value, 1, input.maxChars)
                    = SubSeq(input.text, 1, input.maxChars)
              /\ SubSeq(output.value, input.maxChars + 1, Len(output.value))
                    = Marker

C13_Witness ==
    /\ Truncated
    /\ input.maxChars = 2
    /\ Len(input.text) = 3
    /\ Len(output.value) = 17

\* how often a part occurs in a prompt
Count(prompt, part) ==
    Cardinality({i \in 1..Len(prompt) : prompt[i] = part})

\* the prompt has the text between the two fixed lines, one after the other
HasBlock(prompt, header, text, footer) ==
    \E i \in 1..(Len(prompt) - 2) :
        /\ prompt[i] = Fixed(header)
        /\ prompt[i + 1] = Quoted(text)
        /\ prompt[i + 2] = Fixed(footer)

SystemPromptBuilt == input.fn = "createSystemPrompt" /\ output.done

\* C14: createSystemPrompt has two shapes.  With repo rules that are empty
\* or white space only: the "common rules only" statement, no override
\* statement, no repo-rules block.  With other repo rules: one repo-rules
\* block holding them, the override statement, no "common rules only"
\* statement.  The common-rules block is there in both.
C14_SystemPromptShapes ==
    SystemPromptBuilt =>
        /\ Count(output.value, Fixed("commonRulesHeader")) = 1
        /\ HasBlock(output.value, "commonRulesHeader",
                    IF input.rules.commonRules = <<>> THEN NoneText
                    ELSE input.rules.commonRules,
                    "commonRulesFooter")
        /\ IF Trim(input.rules.repoRules) = <<>>
              THEN /\ Count(output.value, Fixed("commonRulesOnly")) = 1
                   /\ Count(output.value, Fixed("repoRulesOverride")) = 0
                   /\ Count(output.value, Fixed("repoRulesHeader")) = 0
                   /\ Count(output.value, Fixed("repoRulesFooter")) = 0
                   /\ Len(output.value) = 6
              ELSE /\ Count(output.value, Fixed("repoRulesHeader")) = 1
                   /\ HasBlock(output.value, "repoRulesHeader",
                               Trim(input.rules.repoRules), "repoRulesFooter")
                   /\ Count(output.value, Fixed("repoRulesOverride")) = 1
                   /\ Count(output.value, Fixed("commonRulesOnly")) = 0
                   /\ Len(output.value) = 9

C14_Witness ==
    /\ SystemPromptBuilt
    /\ input.rules.repoRules = <<" ", "\n">>
    /\ Count(output.value, Fixed("commonRulesOnly")) = 1


\* the comment is a string that is not empty
NonEmptyString(x) == x.t = "string" /\ x.v # <<>>

\* what C15 takes the language check to accept: every comment that is a
\* non-empty string has a Hangul character
EveryCommentKorean(list) ==
    \A i \in 1..Len(list) :
        (list[i].t = "object" /\ NonEmptyString(list[i].reviewComment))
            => hasHangul(list[i].reviewComment.v)

\* C15: allKoreanOrEmpty accepts a list exactly when every comment that is
\* a non-empty string has a character of the target script; a comment of
\* white space only is not exempt, so the list that holds one is rejected
\* and the retry is made.
C15_AcceptsIffEveryCommentKorean ==
    (pc \in {"retry", "returned"} /\ ~ParsedCall(1).threw) =>
        /\ allKoreanOrEmpty(ParsedCall(1).reviews) = "pass"
              <=> EveryCommentKorean(ParsedCall(1).reviews)
        /\ ~EveryCommentKorean(ParsedCall(1).reviews) =>
              (pc = "retry" \/ Len(chunkCalls) = 2)


\* the orchestrator state a position of main() belongs to: 0 Init,
\* 1 DiffAcquired, 2 DiffFiltered, 3 RulesLoaded, 4 PerChunkReview,
\* 5 Aggregated, 6 the run is over
Stage(p) ==
    CASE p \in {"start", "dispatch"} -> 0
      [] p = "diffAcquired" -> 1
      [] p = "diffFiltered" -> 2
      [] p = "rulesLoaded" -> 3
      [] p \in {"loop", "retry", "returned"} -> 4
      [] p = "aggregated" -> 5
      [] p \in {"done", "failed"} -> 6

\* C16: a run goes through Init, DiffAcquired, DiffFiltered, RulesLoaded,
\* PerChunkReview, Aggregated and then Submitted or Skipped in this order
\* and never back; the pull request is fetched once, before the diff; the
\* filter and the rules are done before the first model call; the review
\* is submitted only after the last chunk's review has finished.
C16_StagesInOrder ==
    [][/\ ~Terminal
       /\ Stage(pc') \in {Stage(pc), Stage(pc) + 1, 6}
       /\ \A i \in 1..Len(platformCalls') :
             platformCalls'[i].request = "pulls.get" <=> i = 1
       /\ diff' # diff => prDetails # NoDetails
       /\ modelCalls' # modelCalls =>
             /\ Stage(pc) = 4
             /\ filteredDiff = FilterDiff(diff.files, ExcludePatterns(excludeRaw))
             /\ systemPrompt = createSystemPrompt(rules)
       /\ Stage(pc') = 4 => (submissions' = <<>> /\ Stage(pc) \in {3, 4})
       /\ Stage(pc') = 5 => (fi > Len(filteredDiff) /\ chunkCalls = <<>>)
       /\ submissions' # submissions =>
             /\ pc = "aggregated"
             /\ fi > Len(filteredDiff)
             /\ modelCalls' = modelCalls]_vars

C16_Witness ==
    /\ pc = "done"
    /\ Len(submissions) = 1
    /\ Len(modelCalls) >= 3
    /\ Len(platformCalls) = 3


\* the run made no model call and submitted nothing
NoReview == modelCalls = <<>> /\ submissions = <<>>

\* C17: when the diff acquired is absent or empty the run logs, loads no
\* rules, makes no model call, submits nothing and ends with exit status
\* zero; a diff of which the filter retains no file also ends without a
\* model call and without a submission.
C17_NoDiffNoReview ==
    /\ (diff.kind \in {"undefined", "empty"} /\ pc # "diffAcquired") =>
          /\ pc = "done"
          /\ exitCode = "zero"
          /\ console = <<"No diff found">>
          /\ NoReview
          /\ rules = NoRules
          /\ systemPrompt = <<>>
    /\ (diff.kind = "text" /\ pc # "diffAcquired" /\ filteredDiff = <<>>) =>
          /\ NoReview
          /\ Terminal => (pc = "done" /\ exitCode = "zero" /\ console = <<>>)

C17_Witness ==
    /\ pc = "done"
    /\ eventAction = "synchronize"
    /\ diff.kind = "empty"
    /\ console = <<"No diff found">>


\* call i of the log is for a chunk not after the chunk of call j
CallNotAfter(i, j) ==
    NotAfter(<<modelCalls[i].file, modelCalls[i].chunk>>,
             <<modelCalls[j].file, modelCalls[j].chunk>>)

\* the chunks analyzeCode has to review: those of the retained files that
\* are not deletions
Reviewable ==
    UNION {{<<f, c>> : c \in 1..filteredDiff[f].chunks} :
              f \in {g \in 1..Len(filteredDiff) :
                        filteredDiff[g].to # JString(DevNull)}}

\* C18: chunks are reviewed one at a time in diff order, the calls of a
\* chunk (first call, then at most one retry) before the first call of the
\* next chunk, and each chunk of each retained file that is no deletion is
\* reviewed exactly once: with N such chunks a run that went into the loop
\* ends with at least N and at most 2N model calls.
C18_EachChunkOnceInOrder ==
    /\ \A i, j \in 1..Len(modelCalls) :
          i < j =>
              /\ CallNotAfter(i, j)
              /\ CallNotAfter(j, i) =>
                    (j = i + 1 /\ modelCalls[i].attempt = 1
                               /\ modelCalls[j].attempt = 2)
    /\ \A i \in 1..Len(modelCalls) :
          <<modelCalls[i].file, modelCalls[i].chunk>> \in Reviewable
    /\ (Terminal /\ fi >= 1) =>
          /\ \A fc \in Reviewable : CallsOfChunk(fc[1], fc[2]) \in {1, 2}
          /\ Len(modelCalls) >= Cardinality(Reviewable)
          /\ Len(modelCalls) <= 2 * Cardinality(Reviewable)


\* the prompts of the calls logged so far: a first call carries the base
\* system prompt, a retry the base prompt plus the added rule and the user
\* prompt of the first call of its chunk
PromptsAsBuilt(calls, base) ==
    \A i \in 1..Len(calls) :
        IF calls[i].attempt = 1
           THEN calls[i].system = base
           ELSE /\ i > 1
                /\ calls[i - 1].attempt = 1
                /\ calls[i - 1].file = calls[i].file
                /\ calls[i - 1].chunk = calls[i].chunk
                /\ calls[i].system = base \o <<Fixed("stricterRule")>>
                /\ calls[i].user = calls[i - 1].user

\* C19: the stricter prompt of a retry stays with its chunk.  Every first
\* call carries the one base system prompt built from the rule bundle, a
\* retry carries that prompt with the stricter rule appended and the user
\* prompt of its chunk's first call, and no step of the loop, retry or
\* failed chunk included, changes the rule bundle, the pull request
\* details or the base system prompt.
C19_RetryPromptLocal ==
    [][/\ Stage(pc) = 4 =>
             /\ rules' = rules
             /\ prDetails' = prDetails
             /\ systemPrompt' = systemPrompt
       /\ Stage(pc') = 4 => systemPrompt' = createSystemPrompt(rules')
       /\ PromptsAsBuilt(modelCalls', createSystemPrompt(rules'))
       /\ \A i \in 1..Len(modelCalls') :
             modelCalls'[i].attempt = 1 =>
                 modelCalls'[i].user
                     = createUserPrompt([to |-> modelCalls'[i].path],
                                        modelCalls'[i].chunk, prDetails')]_vars

C19_Witness ==
    /\ pc = "returned"
    /\ \E i \in 1..Len(modelCalls) :
          /\ modelCalls[i].attempt = 2
          /\ i + 1 < Len(modelCalls)
          /\ modelCalls[i + 1].attempt = 1
          /\ modelCalls[i + 1].system # modelCalls[i].system
          /\ modelCalls[i + 2].attempt = 2


\* C20: with every external call returning or failing, every run over a
\* finite diff ends: it reaches Submitted, Skipped, the exit for an
\* unsupported event or a missing diff, or the fatal exit.  Failing or
\* non-compliant model responses cannot prolong the loop, a chunk having at
\* most two calls.
C20_RunTerminates == <>Terminal

C20_Witness ==
    /\ pc = "done"
    /\ Len(submissions) = 1
    /\ Len(modelCalls) = 2 * Cardinality(Reviewable)
    /\ Cardinality(Reviewable) >= 3


====
